---- MODULE Spec2Model ----
(***************************************************************************)
(* Dihedral-symmetry augmentation of Tak training records                  *)
(* (Engine/NeuralNetwork/dataset.py): the index algebra (transform_rc,     *)
(* transform_index), the tensor / vector transforms built on it, and the   *)
(* per-record sample loop of TakBinDataset.__iter__.                       *)
(*                                                                         *)
(* Tensors are functions over 0-based index ranges; float32 values are     *)
(* modelled by integers (the transforms only move values, and add a value  *)
(* to a zero-initialised slot).                                            *)
(***************************************************************************)
EXTENDS Integers, Sequences, FiniteSets, TLC

\* ------------------------------------------------------------------ bounds

\* Largest channel count (header field channels_in) of a modelled record.
MaxChannels == 2
\* Largest value stored in a tensor element of a modelled record.
MaxVal == 2
\* Largest number of complete records in a modelled file.
MaxRecords == 2

\* --------------------------------------------------------------- constants

BOARD_N == 6

Rows == 0 .. (BOARD_N - 1)
Cells == 0 .. (BOARD_N * BOARD_N - 1)
Rotations == 0 .. 3
Dirs == 0 .. 3

\* ------------------------------------------------------ geometry primitives

idx_to_rc(idx) == << idx \div BOARD_N, idx % BOARD_N >>

rc_to_idx(r, c) == r * BOARD_N + c

\* raise ValueError("rot must be 0..3")
ValueError == << "ValueError", "rot must be 0..3" >>

\* Slip: the rot = 1 and rot = 3 cases exchanged (counter-clockwise turns).
transform_rc_ccw(r, c, rot, flip) ==
    LET rc == CASE rot = 0 -> << r, c >>
                [] rot = 1 -> << BOARD_N - 1 - c, r >>
                [] rot = 2 -> << BOARD_N - 1 - r, BOARD_N - 1 - c >>
                [] rot = 3 -> << c, BOARD_N - 1 - r >>
                [] OTHER -> ValueError
    IN  IF rot \in Rotations /\ flip THEN << rc[1], BOARD_N - 1 - rc[2] >> ELSE rc

\* Slip: the mirror written as BOARD_N - cc (the "- 1" forgotten).
transform_rc_offbyone(r, c, rot, flip) ==
    LET rc == CASE rot = 0 -> << r, c >>
                [] rot = 1 -> << c, BOARD_N - 1 - r >>
                [] rot = 2 -> << BOARD_N - 1 - r, BOARD_N - 1 - c >>
                [] rot = 3 -> << BOARD_N - 1 - c, r >>
                [] OTHER -> ValueError
    IN  IF rot \in Rotations /\ flip THEN << rc[1], BOARD_N - rc[2] >> ELSE rc

\* Slip: rot = 3 returns (BOARD_N - 1 - c, c), so every row of the board
\* lands on the same six cells.
transform_rc_collapse(r, c, rot, flip) ==
    LET rc == CASE rot = 0 -> << r, c >>
                [] rot = 1 -> << c, BOARD_N - 1 - r >>
                [] rot = 2 -> << BOARD_N - 1 - r, BOARD_N - 1 - c >>
                [] rot = 3 -> << BOARD_N - 1 - c, c >>
                [] OTHER -> ValueError
    IN  IF rot \in Rotations /\ flip THEN << rc[1], BOARD_N - 1 - rc[2] >> ELSE rc

\* Slip: the rot = 0 case already mirrors the columns.
transform_rc_noid(r, c, rot, flip) ==
    LET rc == CASE rot = 0 -> << r, BOARD_N - 1 - c >>
                [] rot = 1 -> << c, BOARD_N - 1 - r >>
                [] rot = 2 -> << BOARD_N - 1 - r, BOARD_N - 1 - c >>
                [] rot = 3 -> << BOARD_N - 1 - c, r >>
                [] OTHER -> ValueError
    IN  IF rot \in Rotations /\ flip THEN << rc[1], BOARD_N - 1 - rc[2] >> ELSE rc

\* Slip: the mirror computed from the column before the rotation
\* (cc = BOARD_N - 1 - c), so the rotation of the column is thrown away.
transform_rc_mirror_c(r, c, rot, flip) ==
    LET rc == CASE rot = 0 -> << r, c >>
                [] rot = 1 -> << c, BOARD_N - 1 - r >>
                [] rot = 2 -> << BOARD_N - 1 - r, BOARD_N - 1 - c >>
                [] rot = 3 -> << BOARD_N - 1 - c, r >>
                [] OTHER -> ValueError
    IN  IF rot \in Rotations /\ flip THEN << rc[1], BOARD_N - 1 - c >> ELSE rc

\* rc is the cell after the rotation; the mirror is reached only when the
\* rotation did not raise.
transform_rc(r, c, rot, flip) ==
    LET rc == CASE rot = 0 -> << r, c >>
                [] rot = 1 -> << c, BOARD_N - 1 - r >>
                [] rot = 2 -> << BOARD_N - 1 - r, BOARD_N - 1 - c >>
                [] rot = 3 -> << BOARD_N - 1 - c, r >>
                [] OTHER -> ValueError
    IN  IF rot \in Rotations /\ flip THEN << rc[1], BOARD_N - 1 - rc[2] >> ELSE rc

transform_index(idx, rot, flip) ==
    LET rc == idx_to_rc(idx)
        t  == transform_rc(rc[1], rc[2], rot, flip)
    IN  rc_to_idx(t[1], t[2])

\* ------------------------------------------------------- tensor primitives
\* torch primitives used by the engine, on a (C, H, W) tensor x[ch][i][j].

Channels(x) == DOMAIN x

\* torch.flip(x, dims=(dim,)) for dim = 1 (rows, H) or dim = 2 (columns, W).
torch_flip(x, dim) ==
    [ch \in Channels(x) |->
        [i \in Rows |->
            [j \in Rows |->
                IF dim = 1 THEN x[ch][BOARD_N - 1 - i][j]
                           ELSE x[ch][i][BOARD_N - 1 - j]]]]

\* Tensor.transpose(1, 2)
torch_transpose(x) ==
    [ch \in Channels(x) |-> [i \in Rows |-> [j \in Rows |-> x[ch][j][i]]]]

\* torch.rot90(x, k, dims=(1, 2)): k quarter turns counter-clockwise.
torch_rot90(x, k) ==
    LET kk == k % 4
    IN  CASE kk = 1 -> torch_transpose(torch_flip(x, 2))
          [] kk = 2 -> torch_flip(torch_flip(x, 1), 2)
          [] kk = 3 -> torch_transpose(torch_flip(x, 1))
          [] OTHER  -> x

\* A slot of a fresh buffer that nothing has been stored to yet.  Stored
\* values are the non-negative entries of a target distribution.
Uninit == 0 - 1

\* torch.empty_like(p): a buffer of p's shape, every slot uninitialised.
torch_empty_like(p) == [j \in DOMAIN p |-> Uninit]

\* Reading a tensor: a slot that was never stored to holds whatever the
\* allocator left there (garbage), every other slot the value stored last.
tensor_value(buf, garbage) ==
    [j \in DOMAIN buf |-> IF buf[j] = Uninit THEN garbage ELSE buf[j]]

\* torch.zeros_like(d)
torch_zeros_like(d) == [j \in DOMAIN d |-> 0]

\* ------------------------------------------------ symmetry transform engine

transform_board_tensor(x, rot, flip) ==
    IF rot # 0 THEN torch_rot90(x, rot) ELSE x

\* Slip: the clockwise amount handed to the counter-clockwise primitive as is.
transform_board_tensor_cw_unreconciled(x, rot_cw, flip) ==
    LET x1 == IF rot_cw % 4 # 0 THEN torch_rot90(x, rot_cw) ELSE x
    IN  IF flip THEN torch_flip(x1, 2) ELSE x1

transform_board_tensor_cw(x, rot_cw, flip) ==
    LET k_ccw == (0 - rot_cw) % 4
        x1 == IF k_ccw # 0 THEN torch_rot90(x, k_ccw) ELSE x
    IN  IF flip THEN torch_flip(x1, 2) ELSE x1

\* The loop of permute_policy_pos from iteration i on.  acc.out is the output
\* buffer, acc.writes counts the stores made to each slot and acc.jmap lists
\* the target index computed for every source index so far.
\* Slip: a gather, out[i] = p[j], in place of the scatter.
permute_store_gather(p, i, j, acc) ==
    [out    |-> [acc.out EXCEPT ![i] = p[j]],
     writes |-> [acc.writes EXCEPT ![i] = @ + 1],
     jmap   |-> [acc.jmap EXCEPT ![i] = j]]

\* out[j] = p[i]
permute_store(p, i, j, acc) ==
    [out    |-> [acc.out EXCEPT ![j] = p[i]],
     writes |-> [acc.writes EXCEPT ![j] = @ + 1],
     jmap   |-> [acc.jmap EXCEPT ![i] = j]]

RECURSIVE permute_loop(_, _, _, _, _)
permute_loop(p, rot, flip, i, acc) ==
    IF i = BOARD_N * BOARD_N THEN acc
    ELSE permute_loop(p, rot, flip, i + 1,
             permute_store(p, i, transform_index(i, rot, flip), acc))

\* The call permute_policy_pos(p, rot, flip): .out is the tensor it returns
\* (read through tensor_value), .writes and .jmap record what its loop did.
permute_policy_pos(p, rot, flip) ==
    permute_loop(p, rot, flip, 0,
        [out    |-> torch_empty_like(p),
         writes |-> [j \in DOMAIN p |-> 0],
         jmap   |-> [i \in Cells |-> 0 - 1]])

vecs == << << 0 - 1, 0 >>, << 0, 1 >>, << 1, 0 >>, << 0, 0 - 1 >> >>

apply_to_vec(dr, dc, rot, flip) ==
    LET r0 == 2
        c0 == 2
        r1 == r0 + dr
        c1 == c0 + dc
        tr0 == transform_rc(r0, c0, rot, flip)
        tr1 == transform_rc(r1, c1, rot, flip)
    IN  << tr1[1] - tr0[1], tr1[2] - tr0[2] >>

\* dict.get(key, None) found nothing
None == 0 - 1

\* Slip: the last key of the dict typed as (0, 1): the later entry replaces
\* the earlier one and (0, -1) has no entry.
vec_to_idx_typo(v) ==
    CASE v = << 0 - 1, 0 >> -> 0
      [] v = << 0, 1 >>     -> 3
      [] v = << 1, 0 >>     -> 2
      [] OTHER              -> None

vec_to_idx(v) ==
    CASE v = << 0 - 1, 0 >> -> 0
      [] v = << 0, 1 >>     -> 1
      [] v = << 1, 0 >>     -> 2
      [] v = << 0, 0 - 1 >> -> 3
      [] OTHER              -> None

\* if j is None: continue
\* out[j] += d[i]
remap_accumulate(d, i, j, acc) ==
    IF j = None
    THEN [acc EXCEPT !.idx = [@ EXCEPT ![i] = None]]
    ELSE [out |-> [acc.out EXCEPT ![j] = @ + d[i]],
          idx |-> [acc.idx EXCEPT ![i] = j]]

\* The loop of remap_dirs_probs from direction i on.  acc.out is the output,
\* acc.idx the index j found for each direction, None where the lookup fails
\* and the iteration is skipped by `continue`.
RECURSIVE remap_loop(_, _, _, _, _)
remap_loop(d, rot, flip, i, acc) ==
    IF i = Len(vecs) THEN acc
    ELSE remap_loop(d, rot, flip, i + 1,
             remap_accumulate(d, i,
                 vec_to_idx(apply_to_vec(vecs[i + 1][1], vecs[i + 1][2], rot, flip)),
                 acc))

\* The call remap_dirs_probs(d, rot, flip): .out is the tensor it returns,
\* .idx records the lookups of its loop.
remap_dirs_probs(d, rot, flip) ==
    remap_loop(d, rot, flip, 0,
        [out |-> torch_zeros_like(d), idx |-> [i \in Dirs |-> None]])

\* ----------------------------------------------------------- decoded records
\* The records a file can hold, as TakBinDataset.__iter__ decodes them:
\* x (C, 6, 6), place_pos (36), place_type (3), slide_from (36),
\* slide_dir (4), slide_pickup (6), slide_len (6) and the outcome z.

\* One marked cell m of value v in channel ch over a background w.
MarkedRecord(nch, ch, m, v, w) ==
    [x            |-> [c1 \in 0 .. (nch - 1) |->
                         [i \in Rows |-> [j \in Rows |->
                            IF c1 = ch /\ rc_to_idx(i, j) = m THEN v ELSE w]]],
     place_pos    |-> [i \in Cells |-> IF i = m THEN v ELSE w],
     place_type   |-> [i \in 0 .. 2 |-> IF i = m % 3 THEN v ELSE w],
     slide_from   |-> [i \in Cells |-> IF i = m THEN w ELSE v],
     slide_dir    |-> [i \in Dirs |-> IF i = m % 4 THEN v ELSE w],
     slide_pickup |-> [i \in 0 .. 5 |-> IF i = m % 6 THEN v ELSE w],
     slide_len    |-> [i \in 0 .. 5 |-> IF i = m \div 6 THEN v ELSE w],
     z            |-> (m % 3) - 1]

\* Every element distinct: an asymmetric fixture.
LabelledRecord(nch) ==
    [x            |-> [c1 \in 0 .. (nch - 1) |->
                         [i \in Rows |-> [j \in Rows |->
                            c1 * BOARD_N * BOARD_N + rc_to_idx(i, j) + 1]]],
     place_pos    |-> [i \in Cells |-> i + 1],
     place_type   |-> [i \in 0 .. 2 |-> i + 1],
     slide_from   |-> [i \in Cells |-> BOARD_N * BOARD_N - i],
     slide_dir    |-> [i \in Dirs |-> i + 1],
     slide_pickup |-> [i \in 0 .. 5 |-> i + 1],
     slide_len    |-> [i \in 0 .. 5 |-> 6 - i],
     z            |-> 1]

Records ==
    { MarkedRecord(nch, ch, m, v, w) :
        << nch, ch, m, v, w >> \in
            { t \in (1 .. MaxChannels) \X (0 .. (MaxChannels - 1)) \X Cells
                    \X (1 .. MaxVal) \X (0 .. 1) : t[2] < t[1] } }
    \cup { LabelledRecord(nch) : nch \in 1 .. MaxChannels }

\* What torch.empty_like may hand back in a slot.
GarbageVals == (0 - 1) .. MaxVal

\* The values the allocator may have left in the slots of buf that were never
\* stored to; with every slot stored to, none of them can be read.
GarbageOf(buf) ==
    IF \E j \in DOMAIN buf : buf[j] = Uninit THEN GarbageVals ELSE {Uninit}

\* -------------------------------------------------------------- binary files
\* A .takbin file: 8 bytes of magic, channel count and record count (uint32
\* each), then the records as float32 words.  A file is described by its size
\* in bytes, the bytes at 0..7 (as far as they exist), the two header integers
\* and the complete 4-byte words of its body; the bytes of a trailing
\* incomplete word are never decoded.

MAGIC == "TAKDATA1"

\* t_place_pos, t_place_type, t_slide_from, t_slide_dir, t_slide_pickup,
\* t_slide_len, z: the arguments of the seven read_arr calls.
target_lens == << 36, 3, 36, 4, 6, 6, 1 >>

\* Words (float32) of the board block for channels_in channels.
feat_n(nch) == BOARD_N * BOARD_N * nch

\* Words of one record as the reader consumes them.
RecordWordCount(nch) ==
    feat_n(nch) + target_lens[1] + target_lens[2] + target_lens[3]
        + target_lens[4] + target_lens[5] + target_lens[6] + target_lens[7]

\* A 0-based array as a sequence of words.
ArrayWords(a) == [w \in 1 .. Cardinality(DOMAIN a) |-> a[w - 1]]

\* The words of record r with nch channels as they lie in a file that the
\* reader decodes to r: the board as a (6, 6, nch) block, then the targets.
RecordWords(r, nch) ==
    [w \in 1 .. feat_n(nch) |->
        r.x[(w - 1) % nch][(w - 1) \div (nch * BOARD_N)][((w - 1) \div nch) % BOARD_N]]
    \o ArrayWords(r.place_pos) \o ArrayWords(r.place_type)
    \o ArrayWords(r.slide_from) \o ArrayWords(r.slide_dir)
    \o ArrayWords(r.slide_pickup) \o ArrayWords(r.slide_len) \o << r.z >>

\* Record r with d added to every element.
ShiftedRecord(r, d) ==
    [x            |-> [ch \in DOMAIN r.x |->
                         [i \in Rows |-> [j \in Rows |-> r.x[ch][i][j] + d]]],
     place_pos    |-> [i \in DOMAIN r.place_pos |-> r.place_pos[i] + d],
     place_type   |-> [i \in DOMAIN r.place_type |-> r.place_type[i] + d],
     slide_from   |-> [i \in DOMAIN r.slide_from |-> r.slide_from[i] + d],
     slide_dir    |-> [i \in DOMAIN r.slide_dir |-> r.slide_dir[i] + d],
     slide_pickup |-> [i \in DOMAIN r.slide_pickup |-> r.slide_pickup[i] + d],
     slide_len    |-> [i \in DOMAIN r.slide_len |-> r.slide_len[i] + d],
     z            |-> r.z + d]

\* The i-th record (0-based) written to a modelled file: "labelled" files
\* hold pairwise distinct words, "marked" files all-zero records with one
\* marked cell (record 0 marks cell 0).
FileRecord(kind, nch, i) ==
    IF kind = "labelled"
    THEN ShiftedRecord(LabelledRecord(nch), 100 * i)
    ELSE MarkedRecord(nch, 0, (7 * i) % (BOARD_N * BOARD_N), 1, 0)

RECURSIVE FileBody(_, _, _)
FileBody(kind, nch, k) ==
    IF k = 0 THEN << >>
    ELSE FileBody(kind, nch, k - 1) \o RecordWords(FileRecord(kind, nch, k - 1), nch)

\* Byte lengths at which a record is cut off: nothing, inside the board block
\* (one byte, one word, one byte short of the block), and for each of the
\* seven targets right before it and one byte short of its end.
RECURSIVE TargetCuts(_, _)
TargetCuts(start, i) ==
    IF i > Len(target_lens) THEN {}
    ELSE {start, start + 4 * target_lens[i] - 1}
             \cup TargetCuts(start + 4 * target_lens[i], i + 1)

TailLens(nch) ==
    {0} \cup { b \in {1, 4, 4 * feat_n(nch) - 1} : b < 4 * feat_n(nch) }
        \cup TargetCuts(4 * feat_n(nch), 1)

\* Values of the record-count field: zero, below, and above any record count.
Hints == {0, 1, MaxRecords + 1}

\* A file with a full header, k complete records and tail more bytes.
MakeFile(magic, nch, hint, kind, k, tail) ==
    [size     |-> 16 + 4 * k * RecordWordCount(nch) + tail,
     magic    |-> magic,
     channels |-> nch,
     hint     |-> hint,
     words    |-> FileBody(kind, nch, k)
                    \o SubSeq(RecordWords(FileRecord(kind, nch, k), nch),
                              1, tail \div 4)]

\* A file that ends inside its header (size < 16): the magic may be cut.
HeaderOnlyFile(size) ==
    [size     |-> size,
     magic    |-> IF size >= 8 THEN MAGIC ELSE IF size >= 4 THEN "TAKD" ELSE "",
     channels |-> 1,
     hint     |-> 0,
     words    |-> << >>]

Files ==
    { MakeFile(MAGIC, nch, hint, kind, k, tail) :
        << nch, hint, kind, k, tail >> \in
            { t \in (0 .. MaxChannels) \X Hints \X {"labelled", "marked"}
                    \X (0 .. MaxRecords) \X (0 .. (4 * RecordWordCount(MaxChannels)))
                : t[5] \in TailLens(t[1]) } }
    \cup { MakeFile("TAKDATA2", 1, 1, "marked", 1, 0) }
    \cup { HeaderOnlyFile(size) : size \in {0, 4, 7, 8, 10, 12, 15} }

\* f.read(n) with the file position at pos: the number of bytes returned.
FileRead(f, at, n) ==
    IF f.size - at < n THEN (IF f.size > at THEN f.size - at ELSE 0) ELSE n

\* np.frombuffer(b, dtype=np.float32) of n words read at byte offset at
\* (16 + a multiple of 4): a 0-based array.
frombuffer(f, at, n) == [i \in 0 .. (n - 1) |-> f.words[(at - 16) \div 4 + i + 1]]

\* -------------------------------------------------------------------- state

VARIABLES
    rec,      \* the record decoded from the file (x, t_place_pos, ..., z)
    augment,  \* self.augment
    pc,       \* "unopened" | "reading" | "decoded" | "yielded" | "called"
              \* | "exhausted" | "failed": where the generator or caller stands
    nyield,   \* samples yielded for this record (position in the rot/flip loops)
    sample,   \* the tuple handed to the consumer by the last yield
    trace,    \* what the engine did while building that sample
    call,     \* the last direct call of an engine function and its result
    file,        \* the file at self.path
    handle,      \* "none" | "open" | "closed": the handle f of the with block
    pos,         \* the file position of f
    channels_in, \* the local channels_in (None before it is unpacked)
    count,       \* the local _count (None before it is unpacked)
    nrec,        \* records decoded so far
    rd,          \* the reads of the last pass of the loop: bytes returned by
                 \* the board read, targets read in full, and which read_arr
                 \* call (1..7) came back short (0: none)
    err,         \* the exception that left the generator, if any
    log,         \* the samples yielded so far: record number, rot, flip
    inputs,      \* concat_takbin: the files at args.inputs, in argument order
    ci,          \* inputs the loop of main has gone through
    channels0,   \* the local channels0 (None before the first header)
    bodies,      \* the local bodies
    out,         \* the file at args.out (NoOutput: there is none)
    out0,        \* the file at args.out when main started
    cpc,         \* "idle" | "reading" | "done" | "failed": where main stands
    cerr,        \* the exception that left main, if any
    gen,         \* which generator of the dataset object is running (1 or 2)
    other,       \* the frame of the other generator, suspended (NoGen: the
                 \* dataset has been iterated once only)
    targs,       \* train.py: args (steps, save_every, batch_size, resume) and
                 \* the number of records of the file at args.data
    tstep,       \* the local step of train_cli
    tupdates,    \* optimizer updates applied to the model in hand
    tran,        \* opt.step() calls of this train_cli call
    tbatch,      \* batches drawn from the current dl_iter
    tckpts,      \* the checkpoint files ckpt_<n>.pt in args.out_dir, by n
    tpc,         \* "idle" | "start" | "loop" | "done" | "crashed"
    terr,        \* the exception that left train_cli, if any
    tit          \* training_loop.py: the iteration `it` (None: train.py was
                 \* called by hand)

readerVars == << file, handle, pos, channels_in, count, nrec, rd, err >>

concatVars == << inputs, ci, channels0, bodies, out, out0, cpc, cerr >>

iterVars == << gen, other >>

trainVars == << targs, tstep, tupdates, tran, tbatch, tckpts, tpc, terr, tit >>

toolVars == << concatVars, iterVars, trainVars >>

vars ==
    << rec, augment, pc, nyield, sample, trace, call, readerVars, log, toolVars >>

NoSample == << >>
NoTrace == [rot |-> 0 - 1, flip |-> FALSE]
NoCall == [fn |-> "none"]

\* (x, t_place_pos, t_place_type, t_slide_from, t_slide_dir, t_slide_pickup,
\*  t_slide_len, zt)
RawSample(r) ==
    << r.x, r.place_pos, r.place_type, r.slide_from, r.slide_dir,
       r.slide_pickup, r.slide_len, r.z >>

\* Slip: t_slide_len and t_slide_pickup in each other's place in the tuple.
AugmentedSample_swapped(r, xa, pp, sf, sd) ==
    << xa, pp, r.place_type, sf, sd, r.slide_len, r.slide_pickup, r.z >>

\* (xa, pp, t_place_type, sf, sd, t_slide_pickup, t_slide_len, zt)
AugmentedSample(r, xa, pp, sf, sd) ==
    << xa, pp, r.place_type, sf, sd, r.slide_pickup, r.slide_len, r.z >>

NoRecord == << >>
NoFile == [size |-> 0, magic |-> "", channels |-> 0, hint |-> 0, words |-> << >>]
NoRead == [board |-> 0 - 1, targets |-> 0, short |-> 0]
NoError == [type |-> "none", msg |-> ""]

\* raise ValueError(f"Bad magic: {magic!r}")
BadMagic == [type |-> "ValueError", msg |-> "Bad magic"]
\* struct.unpack("<I", b) with len(b) # 4
StructError == [type |-> "struct.error", msg |-> "unpack requires a buffer of 4 bytes"]
\* np.frombuffer(buf, dtype=np.float32) with len(buf) not a multiple of 4
FrombufferError ==
    [type |-> "ValueError", msg |-> "buffer size must be a multiple of element size"]
\* .reshape(BOARD_N, BOARD_N, channels_in) of an array of another size
ReshapeError == [type |-> "ValueError", msg |-> "cannot reshape array"]
\* A variant of TruncatedRecord that raises the error of a bad format.
TruncatedRecord_value == [type |-> "ValueError", msg |-> "Truncated record"]
\* raise EOFError("Truncated record")
TruncatedRecord == [type |-> "EOFError", msg |-> "Truncated record"]

NoOutput == [size |-> 0 - 1, magic |-> "", channels |-> 0, hint |-> 0,
             words |-> << >>]

NoGen == [pc |-> "none"]

\* args.resume is None: no checkpoint to resume from.
NoCkpt == [step |-> None, updates |-> None]
NoArgs == [steps |-> 0, save_every |-> 0, batch_size |-> 1, records |-> 0,
           iters |-> 0, resume |-> NoCkpt]

\* train.py is not running.
TrainIdle ==
    /\ targs = NoArgs
    /\ tstep = 0
    /\ tupdates = 0
    /\ tran = 0
    /\ tbatch = 0
    /\ tckpts = << >>
    /\ tpc = "idle"
    /\ terr = NoError
    /\ tit = None

\* concat_takbin is not running; the dataset has one generator.
ConcatIdle ==
    /\ TrainIdle
    /\ gen = 1
    /\ other = NoGen
    /\ inputs = << >>
    /\ ci = 0
    /\ channels0 = None
    /\ bodies = << >>
    /\ out = NoOutput
    /\ out0 = NoOutput
    /\ cpc = "idle"
    /\ cerr = NoError

\* One decoded record in the yield loop, no file behind it.
Init ==
    /\ ConcatIdle
    /\ rec \in Records
    /\ augment \in BOOLEAN
    /\ pc = "decoded"
    /\ nyield = 0
    /\ sample = NoSample
    /\ trace = NoTrace
    /\ call = NoCall
    /\ file = NoFile
    /\ handle = "open"
    /\ pos = 16
    /\ channels_in = Cardinality(DOMAIN rec.x)
    /\ count = 0
    /\ nrec = 1
    /\ rd = NoRead
    /\ err = NoError
    /\ log = << >>

\* A dataset object over a file: iter() has been called, next() not yet.
InitReader ==
    /\ ConcatIdle
    /\ file \in Files
    /\ augment \in BOOLEAN
    /\ pc = "unopened"
    /\ rec = NoRecord
    /\ nyield = 0
    /\ sample = NoSample
    /\ trace = NoTrace
    /\ call = NoCall
    /\ handle = "none"
    /\ pos = 0
    /\ channels_in = None
    /\ count = None
    /\ nrec = 0
    /\ rd = NoRead
    /\ err = NoError
    /\ log = << >>

\* if not self.augment: yield (x, t_place_pos, ...); continue
YieldRaw ==
    /\ pc = "decoded"
    /\ ~augment
    /\ sample' = RawSample(rec)
    /\ nyield' = 1
    /\ pc' = "yielded"
    /\ call' = NoCall
    /\ log' = Append(log, [rec |-> nrec - 1, rot |-> 0, flip |-> FALSE])
    /\ UNCHANGED << rec, augment, trace, readerVars, toolVars >>

\* for rot in (0, 1, 2, 3): for flip in (False, True): ... yield (xa, pp, ...)
YieldAugmented ==
    /\ pc \in {"decoded", "yielded"}
    /\ augment
    /\ nyield < 8
    /\ LET rot  == nyield \div 2
           flip == (nyield % 2 = 1)
       IN  \E xa \in {transform_board_tensor_cw(rec.x, rot, flip)},
              pp \in {permute_policy_pos(rec.place_pos, rot, flip)},
              sf \in {permute_policy_pos(rec.slide_from, rot, flip)},
              sd \in {remap_dirs_probs(rec.slide_dir, rot, flip)} :
             /\ \E g1 \in GarbageOf(pp.out), g2 \in GarbageOf(sf.out) :
                  sample' = AugmentedSample(rec, xa, tensor_value(pp.out, g1),
                                            tensor_value(sf.out, g2), sd.out)
             /\ trace' = [rot |-> rot, flip |-> flip,
                          pp |-> pp, sf |-> sf, sd |-> sd]
    /\ nyield' = nyield + 1
    /\ pc' = "yielded"
    /\ call' = NoCall
    /\ log' = Append(log, [rec |-> nrec - 1, rot |-> nyield \div 2,
                           flip |-> (nyield % 2 = 1)])
    /\ UNCHANGED << rec, augment, readerVars, toolVars >>

\* The consumer asks for the next sample after the last one of this record:
\* the generator leaves the record (back to the read at the top of the loop).
NextRecord ==
    /\ pc = "yielded"
    /\ (~augment \/ nyield = 8)
    /\ pc' = "reading"
    /\ call' = NoCall
    /\ UNCHANGED << rec, augment, nyield, sample, trace, readerVars, log, toolVars >>

\* A direct call transform_board_tensor(x, rot, flip) on the decoded board.
CallTransformBoardTensor ==
    /\ pc = "decoded"
    /\ \E rot \in Rotations, flip \in BOOLEAN :
         call' = [fn |-> "transform_board_tensor", rot |-> rot, flip |-> flip,
                  result |-> transform_board_tensor(rec.x, rot, flip)]
    /\ pc' = "called"
    /\ UNCHANGED << rec, augment, nyield, sample, trace, readerVars, log, toolVars >>

\* transform_index applied once more, with a second operation, to every index
\* the last permutation computed: idx -> transform_index(idx, A) ->
\* transform_index(., B).
CallTransformIndexAgain ==
    /\ pc = "yielded"
    /\ augment
    /\ call = NoCall
    /\ \E rot \in Rotations, flip \in BOOLEAN :
         call' = [fn |-> "transform_index", rot |-> rot, flip |-> flip,
                  result |-> [i \in Cells |->
                                transform_index(trace.pp.jmap[i], rot, flip)]]
    /\ pc' = "called"
    /\ UNCHANGED << rec, augment, nyield, sample, trace, readerVars, log, toolVars >>

\* ------------------------------------------------------------- the reader

\* A variant of magic_ok that accepts any first eight bytes.
magic_ok_any(magic) == TRUE
\* if magic != MAGIC: raise
magic_ok(magic) == magic = MAGIC

\* A variant of loop_continues that stops after _count records.
loop_continues_counted(n) == n < count
\* while True:
loop_continues(n) == TRUE

\* A variant of board_read_outcome that takes any short board read for the end.
board_read_outcome_lenient(got, nch) ==
    IF got < 4 * feat_n(nch) \/ got = 0 THEN "break" ELSE "ok"
\* What the pass does with the got bytes of buf = f.read(4 * feat_n):
\* `if not buf: break`, then np.frombuffer(buf, dtype=np.float32), then
\* .reshape(BOARD_N, BOARD_N, channels_in).
board_read_outcome(got, nch) ==
    IF got = 0 THEN "break"
    ELSE IF got % 4 # 0 THEN "frombuffer"
    ELSE IF got \div 4 # feat_n(nch) THEN "reshape"
    ELSE "ok"

\* The read_arr calls from the i-th on with the file position at `at`: how
\* many returned a full array before one came back short (7: none did), and
\* the file position afterwards.
RECURSIVE read_arrs(_, _, _)
read_arrs(f, at, i) ==
    IF i > Len(target_lens) THEN [full |-> i - 1, pos |-> at]
    ELSE IF FileRead(f, at, 4 * target_lens[i]) # 4 * target_lens[i]
         THEN [full |-> i - 1, pos |-> at + FileRead(f, at, 4 * target_lens[i])]
         ELSE read_arrs(f, at + 4 * target_lens[i], i + 1)

\* The byte offset, from the start of the targets, of the i-th target.
RECURSIVE target_offset(_)
target_offset(i) == IF i = 1 THEN 0 ELSE target_offset(i - 1) + 4 * target_lens[i - 1]

\* A variant of decode_record that assigns the sixth array read to
\* t_slide_pickup and the fifth to t_slide_len.
decode_record_swapped(f, at, nch) ==
    LET flat == frombuffer(f, at, feat_n(nch))
        t(i) == frombuffer(f, at + 4 * feat_n(nch) + target_offset(i), target_lens[i])
    IN  [x            |-> [ch \in 0 .. (nch - 1) |->
                             [i \in Rows |-> [j \in Rows |->
                                 flat[(i * BOARD_N + j) * nch + ch]]]],
         place_pos    |-> t(1),
         place_type   |-> t(2),
         slide_from   |-> t(3),
         slide_dir    |-> t(4),
         slide_pickup |-> t(6),
         slide_len    |-> t(5),
         z            |-> t(7)[0]]

\* The record of the pass whose reads started at byte `at`: the board block
\* reshaped to (6, 6, channels_in) and permuted to channel-first, then the
\* seven arrays in the order they are read.
decode_record(f, at, nch) ==
    LET flat == frombuffer(f, at, feat_n(nch))
        t(i) == frombuffer(f, at + 4 * feat_n(nch) + target_offset(i), target_lens[i])
    IN  [x            |-> [ch \in 0 .. (nch - 1) |->
                             [i \in Rows |-> [j \in Rows |->
                                 flat[(i * BOARD_N + j) * nch + ch]]]],
         place_pos    |-> t(1),
         place_type   |-> t(2),
         slide_from   |-> t(3),
         slide_dir    |-> t(4),
         slide_pickup |-> t(5),
         slide_len    |-> t(6),
         z            |-> t(7)[0]]

\* An exception leaves the generator: the with block closes f.
Raise(e, at) ==
    /\ err' = e
    /\ pos' = at
    /\ handle' = "closed"
    /\ pc' = "failed"

\* The first next(): open(self.path, "rb"), the magic and the two header
\* fields.
OpenHeader ==
    /\ pc = "unopened"
    /\ IF ~magic_ok(file.magic)
       THEN /\ Raise(BadMagic, FileRead(file, 0, 8))
            /\ UNCHANGED << channels_in, count >>
       ELSE IF FileRead(file, 8, 4) # 4
       THEN /\ Raise(StructError, 8 + FileRead(file, 8, 4))
            /\ UNCHANGED << channels_in, count >>
       ELSE IF FileRead(file, 12, 4) # 4
       THEN /\ Raise(StructError, 12 + FileRead(file, 12, 4))
            /\ channels_in' = file.channels
            /\ UNCHANGED count
       ELSE /\ channels_in' = file.channels
            /\ count' = file.hint
            /\ pos' = 16
            /\ handle' = "open"
            /\ pc' = "reading"
            /\ UNCHANGED err
    /\ UNCHANGED << file, rec, augment, nyield, sample, trace, call, nrec, rd, log, toolVars >>

\* One pass of the while loop up to its first yield: the board read, the
\* end-of-file test, the seven read_arr calls and the conversions.
ReadRecord ==
    /\ pc = "reading"
    /\ \E got \in {FileRead(file, pos, 4 * feat_n(channels_in))} :
       \E outcome \in {IF loop_continues(nrec)
                       THEN board_read_outcome(got, channels_in)
                       ELSE "break"} :
       \E arrs \in {read_arrs(file, pos + got, 1)} :
         IF outcome = "break"
         THEN /\ pc' = "exhausted"
              /\ handle' = "closed"
              /\ rd' = [board |-> IF loop_continues(nrec) THEN got ELSE 0 - 1,
                        targets |-> 0, short |-> 0]
              /\ UNCHANGED << rec, nrec, nyield, err, pos >>
         ELSE IF outcome = "frombuffer"
         THEN /\ Raise(FrombufferError, pos + got)
              /\ rd' = [board |-> got, targets |-> 0, short |-> 0]
              /\ UNCHANGED << rec, nrec, nyield >>
         ELSE IF outcome = "reshape"
         THEN /\ Raise(ReshapeError, pos + got)
              /\ rd' = [board |-> got, targets |-> 0, short |-> 0]
              /\ UNCHANGED << rec, nrec, nyield >>
         ELSE IF arrs.full < Len(target_lens)
         THEN /\ Raise(TruncatedRecord, arrs.pos)
              /\ rd' = [board |-> got, targets |-> arrs.full,
                        short |-> arrs.full + 1]
              /\ UNCHANGED << rec, nrec, nyield >>
         ELSE /\ rec' = decode_record(file, pos, channels_in)
              /\ nrec' = nrec + 1
              /\ nyield' = 0
              /\ pos' = arrs.pos
              /\ rd' = [board |-> got, targets |-> arrs.full, short |-> 0]
              /\ pc' = "decoded"
              /\ UNCHANGED << handle, err >>
    /\ UNCHANGED << file, augment, sample, trace, call, channels_in, count, log, toolVars >>

\* The whole iteration without augmentation as a function of the file: the
\* records yielded, in order, and how the generator ends.  reader_loop is the
\* while loop from file position `at` on, acc the records yielded before.
RECURSIVE reader_loop(_, _, _)
reader_pass(f, at, acc, outcome, arrs) ==
    IF outcome = "break" THEN [recs |-> acc, end |-> "exhausted"]
    ELSE IF outcome # "ok" \/ arrs.full < Len(target_lens)
    THEN [recs |-> acc, end |-> "failed"]
    ELSE reader_loop(f, arrs.pos, Append(acc, decode_record(f, at, f.channels)))
reader_loop(f, at, acc) ==
    reader_pass(f, at, acc,
        board_read_outcome(FileRead(f, at, 4 * feat_n(f.channels)), f.channels),
        read_arrs(f, at + FileRead(f, at, 4 * feat_n(f.channels)), 1))

reader_yields(f) ==
    IF ~magic_ok(f.magic) \/ FileRead(f, 8, 4) # 4 \/ FileRead(f, 12, 4) # 4
    THEN [recs |-> << >>, end |-> "failed"]
    ELSE reader_loop(f, 16, << >>)

\* ------------------------------------------------- generators of a dataset
\* Every iter(dataset) makes a generator of __iter__ with a frame of its own:
\* f, channels_in, _count, x, ... are locals.  The consumer runs one generator
\* at a time, from one suspension point (not started, at a yield, finished)
\* to the next.

\* File lengths of the datasets iterated twice: nothing behind the records,
\* a cut inside the board block, a cut inside place_type.
IterTails(nch) ==
    {0} \cup { b \in {4} : b < 4 * feat_n(nch) } \cup {4 * (feat_n(nch) + 36 + 1) + 1}

IterFiles ==
    { MakeFile(MAGIC, nch, 1, "labelled", k, tail) :
        << nch, k, tail >> \in
            { t \in {0, 1} \X (0 .. MaxRecords) \X (0 .. (4 * RecordWordCount(1)))
                : t[3] \in IterTails(t[1]) } }
    \cup { MakeFile("TAKDATA2", 1, 1, "marked", 1, 0), HeaderOnlyFile(4) }

\* The frame of the running generator.
Frame ==
    [pc |-> pc, rec |-> rec, nyield |-> nyield, sample |-> sample, trace |-> trace,
     handle |-> handle, pos |-> pos, channels_in |-> channels_in, count |-> count,
     nrec |-> nrec, rd |-> rd, err |-> err, log |-> log, gen |-> gen]

\* A variant of handle_after_exit that leaves the file open.
handle_after_exit_leak(h) == h
\* Leaving `with open(self.path, "rb") as f` closes f.
handle_after_exit(h) == IF h = "open" THEN "closed" ELSE h

\* A variant of resumed_pos where both generators read through one handle.
resumed_pos_shared(own, others) == others
\* The file position a generator finds when resumed: that of its own f.
resumed_pos(own, others) == own

\* generator.close(): GeneratorExit at the yield the generator is suspended
\* at (a generator not yet started just ends).
CloseGenerator ==
    /\ pc \in {"unopened", "yielded"}
    /\ pc' = "closed"
    /\ handle' = handle_after_exit(handle)
    /\ UNCHANGED << rec, augment, nyield, sample, trace, call, file, pos,
                    channels_in, count, nrec, rd, err, log, toolVars >>

\* iter(dataset) once more: a second generator, not yet started; the first
\* stays where it is.
IterAgain ==
    /\ other = NoGen
    /\ pc \in {"unopened", "yielded", "exhausted", "failed", "closed"}
    /\ other' = Frame
    /\ gen' = gen + 1
    /\ pc' = "unopened"
    /\ rec' = NoRecord
    /\ nyield' = 0
    /\ sample' = NoSample
    /\ trace' = NoTrace
    /\ handle' = "none"
    /\ pos' = 0
    /\ channels_in' = None
    /\ count' = None
    /\ nrec' = 0
    /\ rd' = NoRead
    /\ err' = NoError
    /\ log' = << >>
    /\ UNCHANGED << file, augment, call, concatVars, trainVars >>

\* The consumer turns to the other generator.
SwitchIterator ==
    /\ other # NoGen
    /\ pc \in {"unopened", "yielded", "exhausted", "failed", "closed"}
    /\ other' = Frame
    /\ gen' = other.gen
    /\ pc' = other.pc
    /\ rec' = other.rec
    /\ nyield' = other.nyield
    /\ sample' = other.sample
    /\ trace' = other.trace
    /\ handle' = other.handle
    /\ pos' = resumed_pos(other.pos, pos)
    /\ channels_in' = other.channels_in
    /\ count' = other.count
    /\ nrec' = other.nrec
    /\ rd' = other.rd
    /\ err' = other.err
    /\ log' = other.log
    /\ UNCHANGED << file, augment, call, concatVars, trainVars >>

\* A dataset object over a file, iterated up to twice.
InitIter ==
    /\ ConcatIdle
    /\ file \in IterFiles
    /\ augment \in BOOLEAN
    /\ pc = "unopened"
    /\ rec = NoRecord
    /\ nyield = 0
    /\ sample = NoSample
    /\ trace = NoTrace
    /\ call = NoCall
    /\ handle = "none"
    /\ pos = 0
    /\ channels_in = None
    /\ count = None
    /\ nrec = 0
    /\ rd = NoRead
    /\ err = NoError
    /\ log = << >>

\* ---------------------------------------------------------- concat_takbin

\* Largest number of input files of a modelled concat_takbin run.
MaxInputs == 2

\* Lengths at which the last record of an input is cut off: not at all, after
\* one word, and inside place_type (one byte into its second word).
ConcatTails(nch) == {0, 4, 4 * (feat_n(nch) + 36 + 1) + 1}

\* Input files: a full header and 0..MaxRecords records, whole or with a cut
\* record behind them; one file with another magic; one that ends inside its
\* header.
ConcatInputs ==
    { MakeFile(MAGIC, nch, 1, kind, k, tail) :
        << nch, kind, k, tail >> \in
            { t \in (0 .. MaxChannels) \X {"labelled", "marked"} \X (0 .. MaxRecords)
                    \X (0 .. (4 * RecordWordCount(MaxChannels)))
                : t[4] \in ConcatTails(t[1]) } }
    \cup { MakeFile("TAKDATA2", 1, 1, "marked", 1, 0), HeaderOnlyFile(12) }

\* Argument lists.  Bodies are kept word by word, so an input that another
\* input follows has a body of whole 4-byte words.
ConcatInputLists ==
    { l \in UNION { [1 .. n -> ConcatInputs] : n \in 1 .. MaxInputs } :
        \A i \in 1 .. (Len(l) - 1) : l[i].size % 4 = 0 }

\* read_header(f): the exception it raises (NoError: none) and the channel
\* count it returns.
read_header(f) ==
    IF f.magic # MAGIC THEN [err |-> BadMagic, channels |-> None]
    ELSE IF FileRead(f, 8, 4) # 4 \/ FileRead(f, 12, 4) # 4
    THEN [err |-> StructError, channels |-> None]
    ELSE [err |-> NoError, channels |-> f.channels]

\* raise ValueError(f"Channel mismatch: ...")
ChannelMismatch == [type |-> "ValueError", msg |-> "Channel mismatch"]

\* A variant of channels_differ that lets every channel count pass.
channels_differ_never(ch, ch0) == FALSE
\* elif ch != channels0 (after `if channels0 is None`)
channels_differ(ch, ch0) == ch0 # None /\ ch # ch0

\* f.read() after the header: the rest of the file.
read_rest(f) == [bytes |-> f.size - 16, words |-> f.words]

RECURSIVE body_bytes(_)
body_bytes(bs) == IF bs = << >> THEN 0 ELSE Head(bs).bytes + body_bytes(Tail(bs))

RECURSIVE body_words(_)
body_words(bs) == IF bs = << >> THEN << >> ELSE Head(bs).words \o body_words(Tail(bs))

RECURSIVE reversed(_)
reversed(q) == IF q = << >> THEN << >> ELSE Append(reversed(Tail(q)), Head(q))

\* A variant of written_output that writes the bodies last to first.
written_output_reversed(ch0, bs) ==
    [size     |-> 16 + body_bytes(bs),
     magic    |-> MAGIC,
     channels |-> ch0,
     hint     |-> 0,
     words    |-> body_words(reversed(bs))]

\* What the writes of main leave at args.out: MAGIC, pack("<I", channels0),
\* pack("<I", 0) and every element of bodies in order.
written_output(ch0, bs) ==
    [size     |-> 16 + body_bytes(bs),
     magic    |-> MAGIC,
     channels |-> ch0,
     hint     |-> 0,
     words    |-> body_words(bs)]

\* One pass of `for path in args.inputs`: open the input, read_header, compare
\* the channel count, keep the rest of the file.
ConcatReadInput ==
    /\ cpc = "reading"
    /\ ci < Len(inputs)
    /\ \E f \in {inputs[ci + 1]} : \E h \in {read_header(f)} :
         IF h.err # NoError
         THEN /\ cerr' = h.err
              /\ cpc' = "failed"
              /\ UNCHANGED << channels0, bodies, ci >>
         ELSE IF channels_differ(h.channels, channels0)
         THEN /\ cerr' = ChannelMismatch
              /\ cpc' = "failed"
              /\ UNCHANGED << channels0, bodies, ci >>
         ELSE /\ channels0' = IF channels0 = None THEN h.channels ELSE channels0
              /\ bodies' = Append(bodies, read_rest(f))
              /\ ci' = ci + 1
              /\ UNCHANGED << cpc, cerr >>
    /\ UNCHANGED << inputs, out, out0, iterVars, trainVars >>
    /\ UNCHANGED << rec, augment, pc, nyield, sample, trace, call, readerVars, log >>

\* with open(args.out, "wb") as out: the header and the bodies are written.
ConcatWrite ==
    /\ cpc = "reading"
    /\ ci = Len(inputs)
    /\ out' = written_output(channels0, bodies)
    /\ cpc' = "done"
    /\ UNCHANGED << inputs, ci, channels0, bodies, out0, cerr, iterVars, trainVars >>
    /\ UNCHANGED << rec, augment, pc, nyield, sample, trace, call, readerVars, log >>

\* TakBinDataset(args.out, augment=False) is iterated.
OpenOutput ==
    /\ cpc = "done"
    /\ pc = "idle"
    /\ file' = out
    /\ pc' = "unopened"
    /\ UNCHANGED << rec, augment, nyield, sample, trace, call, log, toolVars,
                    handle, pos, channels_in, count, nrec, rd, err >>

\* concat_takbin --out <out> <inputs>, then the output is read back.
InitConcat ==
    /\ TrainIdle
    /\ gen = 1
    /\ other = NoGen
    /\ inputs \in ConcatInputLists
    /\ out0 \in {NoOutput, MakeFile(MAGIC, 1, 1, "marked", 1, 0)}
    /\ out = out0
    /\ ci = 0
    /\ channels0 = None
    /\ bodies = << >>
    /\ cpc = "reading"
    /\ cerr = NoError
    /\ file = NoFile
    /\ augment = FALSE
    /\ pc = "idle"
    /\ rec = NoRecord
    /\ nyield = 0
    /\ sample = NoSample
    /\ trace = NoTrace
    /\ call = NoCall
    /\ handle = "none"
    /\ pos = 0
    /\ channels_in = None
    /\ count = None
    /\ nrec = 0
    /\ rd = NoRead
    /\ err = NoError
    /\ log = << >>

\* ---------------------------------------------- train.py, training_loop.py

\* Largest --steps, --save-every, number of records of a dataset and number
\* of iterations of training_loop.py that are modelled.
MaxSteps == 3
MaxSaveEvery == 2
MaxTrainRecords == 2
MaxIters == 2

\* --save-every when the caller does not pass it (training_loop.py does not).
DefaultSaveEvery == 2000

\* Samples of one pass over the dataset: TakBinDataset(args.data) augments.
samples_per_epoch(records) == 8 * records

\* Batch sizes: single samples, exactly the largest dataset, one more.
BatchSizes == {1, samples_per_epoch(MaxTrainRecords), samples_per_epoch(MaxTrainRecords) + 1}

\* Batches of one pass of the DataLoader: drop_last=True drops a last batch
\* that is not full.
batches_per_epoch(records, batch_size) == samples_per_epoch(records) \div batch_size

\* load_ckpt(args.resume, ...): the step and model of the checkpoint; without
\* --resume step = 0 and the model is new.
load_ckpt(ck) == IF ck = NoCkpt THEN [step |-> 0, updates |-> 0] ELSE ck

\* if args.save_every and (step % args.save_every == 0) and step > 0
periodic_save_due(step, save_every) ==
    save_every # 0 /\ step % save_every = 0 /\ step > 0

\* save_ckpt(out_dir, step, model, opt): ckpt_<step>.pt holds step and the
\* model as it is now; a file of that name is replaced.
save_ckpt(ckpts, step, updates) ==
    [n \in DOMAIN ckpts \cup {step} |->
        IF n = step THEN [step |-> step, updates |-> updates] ELSE ckpts[n]]

\* train_cli up to the loop: dataset, loader, model, resume, iter(dl).
TrainStart ==
    /\ tpc = "start"
    /\ tstep' = load_ckpt(targs.resume).step
    /\ tupdates' = load_ckpt(targs.resume).updates
    /\ tran' = 0
    /\ tbatch' = 0
    /\ tpc' = "loop"
    /\ UNCHANGED << targs, tckpts, terr, tit >>
    /\ UNCHANGED << rec, augment, pc, nyield, sample, trace, call, readerVars, log,
                    concatVars, iterVars >>

\* One pass of `while step < args.steps`: the next batch (from a new iterator
\* when the current one is exhausted), the update, the periodic checkpoint,
\* step += 1.
TrainStep ==
    /\ tpc = "loop"
    /\ tstep < targs.steps
    /\ \E nb \in {batches_per_epoch(targs.records, targs.batch_size)} :
         IF tbatch >= nb /\ nb = 0
         THEN /\ terr' = [type |-> "StopIteration", msg |-> ""]
              /\ tpc' = "crashed"
              /\ UNCHANGED << tstep, tupdates, tran, tbatch, tckpts >>
         ELSE /\ tbatch' = IF tbatch >= nb THEN 1 ELSE tbatch + 1
              /\ tupdates' = tupdates + 1
              /\ tran' = tran + 1
              /\ tckpts' = IF periodic_save_due(tstep, targs.save_every)
                           THEN save_ckpt(tckpts, tstep, tupdates + 1)
                           ELSE tckpts
              /\ tstep' = tstep + 1
              /\ UNCHANGED << tpc, terr >>
    /\ UNCHANGED << targs, tit >>
    /\ UNCHANGED << rec, augment, pc, nyield, sample, trace, call, readerVars, log,
                    concatVars, iterVars >>

\* The loop is left: the final checkpoint (and the ONNX export).
TrainFinish ==
    /\ tpc = "loop"
    /\ tstep >= targs.steps
    /\ tckpts' = save_ckpt(tckpts, tstep, tupdates)
    /\ tpc' = "done"
    /\ UNCHANGED << targs, tstep, tupdates, tran, tbatch, terr, tit >>
    /\ UNCHANGED << rec, augment, pc, nyield, sample, trace, call, readerVars, log,
                    concatVars, iterVars >>

\* training_loop.py after run(train_cmd): resume_ckpt = ckpt_<train_steps>.pt
\* of this iteration, the model is promoted, and the next iteration makes its
\* dataset and calls train.py with --resume resume_ckpt into a new out_dir.
LoopNextIteration ==
    /\ tpc = "done"
    /\ tit # None
    /\ tit + 1 < targs.iters
    /\ tit' = tit + 1
    /\ \E records \in 0 .. MaxTrainRecords :
         targs' = [targs EXCEPT !.records = records,
                                !.resume = IF targs.steps \in DOMAIN tckpts
                                           THEN tckpts[targs.steps] ELSE NoCkpt]
    /\ tckpts' = << >>
    /\ tpc' = "start"
    /\ UNCHANGED << tstep, tupdates, tran, tbatch, terr >>
    /\ UNCHANGED << rec, augment, pc, nyield, sample, trace, call, readerVars, log,
                    concatVars, iterVars >>

\* train.py called by hand with any arguments, or training_loop.py at its
\* first iteration (no --resume, no --save-every).
InitTrain ==
    /\ tit \in {None, 0}
    /\ targs \in
         { a \in [steps : 0 .. MaxSteps, save_every : (0 .. MaxSaveEvery) \cup {DefaultSaveEvery},
                  batch_size : BatchSizes, records : 0 .. MaxTrainRecords,
                  iters : 0 .. MaxIters,
                  resume : {NoCkpt} \cup { [step |-> n, updates |-> n] : n \in 0 .. MaxSteps }] :
             IF tit = None
             THEN a.iters = 0 /\ a.save_every # DefaultSaveEvery
             ELSE a.iters > 0 /\ a.resume = NoCkpt /\ a.save_every = DefaultSaveEvery }
    /\ tstep = 0
    /\ tupdates = 0
    /\ tran = 0
    /\ tbatch = 0
    /\ tckpts = << >>
    /\ tpc = "start"
    /\ terr = NoError
    /\ gen = 1 /\ other = NoGen
    /\ inputs = << >> /\ ci = 0 /\ channels0 = None /\ bodies = << >>
    /\ out = NoOutput /\ out0 = NoOutput /\ cpc = "idle" /\ cerr = NoError
    /\ file = NoFile /\ augment = TRUE /\ pc = "idle" /\ rec = NoRecord
    /\ nyield = 0 /\ sample = NoSample /\ trace = NoTrace /\ call = NoCall
    /\ handle = "none" /\ pos = 0 /\ channels_in = None /\ count = None
    /\ nrec = 0 /\ rd = NoRead /\ err = NoError /\ log = << >>

Next ==
    \/ YieldRaw
    \/ YieldAugmented
    \/ NextRecord
    \/ CallTransformBoardTensor
    \/ CallTransformIndexAgain

Spec == Init /\ [][Next]_vars

NextReader ==
    \/ OpenHeader
    \/ ReadRecord
    \/ YieldRaw
    \/ YieldAugmented
    \/ NextRecord

\* The generator of a TakBinDataset driven to its end by next() calls.
SpecReader == InitReader /\ [][NextReader]_vars

NextIter ==
    \/ OpenHeader
    \/ ReadRecord
    \/ YieldRaw
    \/ YieldAugmented
    \/ NextRecord
    \/ CloseGenerator
    \/ IterAgain
    \/ SwitchIterator

\* The generators of one TakBinDataset, run and abandoned by their consumer.
SpecIter == InitIter /\ [][NextIter]_vars

NextTrain ==
    \/ TrainStart
    \/ TrainStep
    \/ TrainFinish
    \/ LoopNextIteration

\* A call of train.py, by hand or from the iterations of training_loop.py.
SpecTrain == InitTrain /\ [][NextTrain]_vars

NextConcat ==
    \/ ConcatReadInput
    \/ ConcatWrite
    \/ OpenOutput
    \/ OpenHeader
    \/ ReadRecord
    \/ YieldRaw
    \/ NextRecord

\* A run of concat_takbin followed by an iteration over its output.
SpecConcat == InitConcat /\ [][NextConcat]_vars

\* ------------------------------------------------------------------- claims

\* The generator is suspended at the yield of an augmented sample, which
\* trace describes.
AugmentedYielded == augment /\ pc = "yielded"

\* transform_index has been applied again to the indices of the last sample.
ComposedCall == augment /\ pc = "called" /\ call.fn = "transform_index"

\* sum(t) of a tensor indexed 0 .. n-1
RECURSIVE SumUpTo(_, _)
SumUpTo(t, n) == IF n < 0 THEN 0 ELSE t[n] + SumUpTo(t, n - 1)

Sum(t) == SumUpTo(t, Cardinality(DOMAIN t) - 1)

\* One quarter turn clockwise about the grid centre, on centre-relative
\* coordinates (u down, v right): up (-1, 0) becomes right (0, 1).
RECURSIVE QuarterTurnsCW(_, _)
QuarterTurnsCW(uv, n) ==
    IF n = 0 THEN uv
    ELSE QuarterTurnsCW(<< uv[2], 0 - uv[1] >>, n - 1)

\* Rotate cell (r, c) clockwise by rot * 90 degrees about the grid centre,
\* then mirror the columns if flip.  Coordinates are doubled so that the
\* centre of an even-sided board is integral.
ReferenceCell(r, c, rot, flip) ==
    LET uv  == QuarterTurnsCW(<< 2 * r - (BOARD_N - 1), 2 * c - (BOARD_N - 1) >>, rot)
        uvf == IF flip THEN << uv[1], 0 - uv[2] >> ELSE uv
    IN  << (uvf[1] + BOARD_N - 1) \div 2, (uvf[2] + BOARD_N - 1) \div 2 >>

\* C1: in every augmented sample the board tensor holds x[ch][r][c] at
\* [ch][transform_rc(r, c, rot, flip)], which is the cell that
\* permute_policy_pos sends index (r, c) to; the channels are those of x, in
\* the same order.
C1_BoardFollowsCellMap ==
    AugmentedYielded =>
        /\ DOMAIN sample[1] = DOMAIN rec.x
        /\ \A ch \in DOMAIN rec.x : \A r \in Rows : \A c \in Rows :
             LET t == transform_rc(r, c, trace.rot, trace.flip)
             IN  /\ sample[1][ch][t[1]][t[2]] = rec.x[ch][r][c]
                 /\ trace.pp.jmap[rc_to_idx(r, c)] = rc_to_idx(t[1], t[2])

\* A two-channel asymmetric board has been turned once clockwise and mirrored.
C1_Witness ==
    /\ AugmentedYielded
    /\ trace.rot = 1 /\ trace.flip
    /\ rec = LabelledRecord(2)
    /\ sample[1] # rec.x
    /\ sample[1][1][1][0] = rec.x[1][0][1]

\* C2: both cell-indexed vectors of an augmented sample satisfy
\* out[transform_index(i, rot, flip)] = p[i] for every i, have length 36, and
\* the loop stored to every slot of the output buffer exactly once.
C2_PermuteWritesEachSlotOnce ==
    AugmentedYielded =>
        /\ DOMAIN sample[2] = Cells /\ DOMAIN sample[4] = Cells
        /\ \A i \in Cells :
             LET j == transform_index(i, trace.rot, trace.flip)
             IN  /\ sample[2][j] = rec.place_pos[i]
                 /\ sample[4][j] = rec.slide_from[i]
        /\ \A j \in Cells : trace.pp.writes[j] = 1 /\ trace.sf.writes[j] = 1

\* A vector of 36 distinct values has been permuted by a quarter turn.
C2_Witness ==
    /\ AugmentedYielded
    /\ trace.rot = 3 /\ ~trace.flip
    /\ rec = LabelledRecord(1)
    /\ sample[2] # rec.place_pos
    /\ sample[2][30] = rec.place_pos[0]

\* C3: the index computed for every cell by transform_index is the clockwise
\* rotation by rot * 90 degrees about the grid centre followed by the column
\* mirror: rot 0 -> (r, c), 1 -> (c, 5-r), 2 -> (5-r, 5-c), 3 -> (5-c, r), then
\* col -> 5-col if flip; and transform_index(0, 1, false) = 5.
C3_TransformIsCwThenMirror ==
    AugmentedYielded =>
        /\ \A r \in Rows : \A c \in Rows :
             LET rot == trace.rot
                 rc  == CASE rot = 0 -> << r, c >>
                          [] rot = 1 -> << c, 5 - r >>
                          [] rot = 2 -> << 5 - r, 5 - c >>
                          [] rot = 3 -> << 5 - c, r >>
                 ref == IF trace.flip THEN << rc[1], 5 - rc[2] >> ELSE rc
             IN  /\ ref = ReferenceCell(r, c, rot, trace.flip)
                 /\ transform_rc(r, c, rot, trace.flip) = ref
                 /\ trace.pp.jmap[rc_to_idx(r, c)] = rc_to_idx(ref[1], ref[2])
        /\ (trace.rot = 1 /\ ~trace.flip) => trace.pp.jmap[0] = 5

\* One clockwise turn took cell (0, 0) to (0, 5).
C3_Witness ==
    /\ AugmentedYielded
    /\ trace.rot = 1 /\ ~trace.flip
    /\ trace.pp.jmap[0] = 5
    /\ trace.pp.jmap[5] = 35

\* C4: for the operation of every augmented sample transform_rc maps the grid
\* into the grid, one-to-one (the 36 cells have 36 distinct images) and onto,
\* and the indices transform_index produced are a permutation of 0 .. 35.
C4_TransformIsBijection ==
    AugmentedYielded =>
        LET image == { transform_rc(rc[1], rc[2], trace.rot, trace.flip) :
                         rc \in Rows \X Rows }
        IN  /\ image \subseteq Rows \X Rows
            /\ Cardinality(image) = BOARD_N * BOARD_N
            /\ image = Rows \X Rows
            /\ { trace.pp.jmap[i] : i \in Cells } = Cells
            /\ \A i \in Cells : \A j \in Cells :
                 trace.pp.jmap[i] = trace.pp.jmap[j] => i = j

\* The last of the eight operations (three turns, mirrored) has been applied.
C4_Witness ==
    /\ AugmentedYielded
    /\ trace.rot = 3 /\ trace.flip
    /\ nyield = 8
    /\ trace.pp.jmap[0] = 35

\* C5: transform_board_tensor turns the board clockwise by rot * 90 degrees and
\* mirrors the columns if flip, that is, it moves x[ch][r][c] to
\* [ch][transform_rc(r, c, rot, flip)], and it returns what
\* transform_board_tensor_cw returns for the same tensor, rotation and flip.
C5_BothBoardTransformsAgree ==
    call.fn = "transform_board_tensor" =>
        /\ \A ch \in DOMAIN rec.x : \A r \in Rows : \A c \in Rows :
             LET t == transform_rc(r, c, call.rot, call.flip)
             IN  call.result[ch][t[1]][t[2]] = rec.x[ch][r][c]
        /\ call.result = transform_board_tensor_cw(rec.x, call.rot, call.flip)

\* C6: each of the four directions resolves to one of the four canonical
\* offsets, the four directions go to four distinct directions, and the
\* direction vector of the sample is the permutation of the input by that map.
C6_DirectionsArePermuted ==
    AugmentedYielded =>
        /\ \A i \in Dirs : trace.sd.idx[i] \in Dirs
        /\ \A i \in Dirs : \A j \in Dirs :
             trace.sd.idx[i] = trace.sd.idx[j] => i = j
        /\ \A i \in Dirs :
             /\ apply_to_vec(vecs[i + 1][1], vecs[i + 1][2], trace.rot, trace.flip)
                    = vecs[trace.sd.idx[i] + 1]
             /\ sample[5][trace.sd.idx[i]] = rec.slide_dir[i]

\* A mirrored half turn has moved the mass of a direction vector with four
\* distinct entries: North and South change places, East and West stay.
C6_Witness ==
    /\ AugmentedYielded
    /\ trace.rot = 2 /\ trace.flip
    /\ rec = LabelledRecord(1)
    /\ trace.sd.idx = [i \in Dirs |-> CASE i = 0 -> 2 [] i = 1 -> 1
                                        [] i = 2 -> 0 [] i = 3 -> 3]
    /\ sample[5] # rec.slide_dir

\* C8: the entries of each permuted cell vector and of the remapped direction
\* vector add up to the sum of the entries of the input vector.
C8_MassConserved ==
    AugmentedYielded =>
        /\ Sum(sample[2]) = Sum(rec.place_pos)
        /\ Sum(sample[4]) = Sum(rec.slide_from)
        /\ Sum(sample[5]) = Sum(rec.slide_dir)

\* A non-uniform vector of positive mass has been moved by a quarter turn.
C8_Witness ==
    /\ AugmentedYielded
    /\ trace.rot = 1
    /\ sample[2] # rec.place_pos
    /\ sample[5] # rec.slide_dir
    /\ Sum(rec.place_pos) > 0
    /\ Sum(rec.slide_dir) > 0

\* C9: under rot = 0, flip = false every index maps to itself and the sample
\* (the first of the eight) equals the raw record element for element; the
\* sample yielded without augmentation equals the raw record too.
C9_IdentityIsNoOp ==
    /\ (AugmentedYielded /\ trace.rot = 0 /\ ~trace.flip) =>
          /\ \A i \in Cells : trace.pp.jmap[i] = i
          /\ \A i \in Dirs : trace.sd.idx[i] = i
          /\ sample[1] = rec.x
          /\ sample[2] = rec.place_pos
          /\ sample[4] = rec.slide_from
          /\ sample[5] = rec.slide_dir
          /\ sample = RawSample(rec)
    /\ (AugmentedYielded /\ nyield = 1) => (trace.rot = 0 /\ ~trace.flip)
    /\ (~augment /\ pc = "yielded") => sample = RawSample(rec)

\* The first augmented sample of an asymmetric two-channel record is out.
C9_Witness ==
    /\ AugmentedYielded
    /\ nyield = 1
    /\ trace.rot = 0 /\ ~trace.flip
    /\ rec = LabelledRecord(2)
    /\ sample = RawSample(rec)

\* C10: transform_index with operation A and then with operation B is, on all
\* 36 indices, transform_index with one single operation C of the eight.
C10_CompositionClosed ==
    ComposedCall =>
        \E rotC \in Rotations : \E flipC \in BOOLEAN :
            \A i \in Cells :
                call.result[i] = transform_index(i, rotC, flipC)

\* A mirrored quarter turn followed by a quarter turn is the plain mirror.
C10_Witness ==
    /\ ComposedCall
    /\ trace.rot = 1 /\ trace.flip
    /\ call.fn = "transform_index"
    /\ call.rot = 1 /\ ~call.flip
    /\ \A i \in Cells : call.result[i] = transform_index(i, 0, TRUE)

\* C11: the operation of an augmented sample differs, as a map on cells, from
\* each of the seven other (rot, flip) pairs: some cell has different images.
C11_OperationsPairwiseDistinct ==
    AugmentedYielded =>
        \A rot2 \in Rotations : \A flip2 \in BOOLEAN :
            (rot2 # trace.rot \/ flip2 # trace.flip) =>
                /\ \E r \in Rows : \E c \in Rows :
                     transform_rc(r, c, trace.rot, trace.flip)
                         # transform_rc(r, c, rot2, flip2)
                /\ \E i \in Cells :
                     trace.pp.jmap[i] # transform_index(i, rot2, flip2)

\* The mirrored half turn (a flip of the rows) has been applied: it fixes no
\* corner, unlike the identity, and differs from the plain mirror at (0, 0).
C11_Witness ==
    /\ AugmentedYielded
    /\ trace.rot = 2 /\ trace.flip
    /\ trace.pp.jmap[0] = 30
    /\ transform_index(0, 0, TRUE) = 5

\* C13: in every sample, augmented or not, place_type (3), slide_pickup (6),
\* slide_len (6) and the outcome are those of the decoded record; in an
\* augmented sample place_pos and slide_from (36 each) are permuted by the cell
\* map and slide_dir (4) by the direction map.
C13_CategoricalsPassThrough ==
    pc = "yielded" =>
        /\ sample[3] = rec.place_type /\ DOMAIN sample[3] = 0 .. 2
        /\ sample[6] = rec.slide_pickup /\ DOMAIN sample[6] = 0 .. 5
        /\ sample[7] = rec.slide_len /\ DOMAIN sample[7] = 0 .. 5
        /\ sample[8] = rec.z
        /\ augment =>
             /\ \A i \in Cells :
                  /\ sample[2][transform_index(i, trace.rot, trace.flip)]
                         = rec.place_pos[i]
                  /\ sample[4][transform_index(i, trace.rot, trace.flip)]
                         = rec.slide_from[i]
             /\ \A i \in Dirs :
                  sample[5][vec_to_idx(apply_to_vec(vecs[i + 1][1], vecs[i + 1][2],
                                                    trace.rot, trace.flip))]
                      = rec.slide_dir[i]

\* A quarter turn has moved both cell vectors and the direction vector of an
\* asymmetric record while its three categorical vectors stayed as decoded.
C13_Witness ==
    /\ AugmentedYielded
    /\ trace.rot = 1 /\ ~trace.flip
    /\ rec = LabelledRecord(1)
    /\ sample[2] # rec.place_pos /\ sample[4] # rec.slide_from
    /\ sample[5] # rec.slide_dir
    /\ sample[3] = rec.place_type
    /\ sample[6] # sample[7]


\* ----------------------------------------------------------- reader claims

\* Bytes of one record for C channels, as the format states them.
RecordBytes(C) == 4 * (36 * C + 36 + 3 + 36 + 4 + 6 + 6 + 1)

\* The file has the magic and a full 16-byte header.
ValidHeader(f) == f.magic = MAGIC /\ f.size >= 16

\* Complete records in the body, and the bytes behind the last of them.
CompleteRecords(f) == (f.size - 16) \div RecordBytes(f.channels)
TailBytes(f) == (f.size - 16) % RecordBytes(f.channels)

SamplesPerRecord == IF augment THEN 8 ELSE 1

\* The samples of k records in the stated order: records in file order, for
\* each record rot outer, flip inner.
ExpectedLog(k) ==
    [n \in 1 .. (k * SamplesPerRecord) |->
        [rec  |-> (n - 1) \div SamplesPerRecord,
         rot  |-> IF augment THEN ((n - 1) % 8) \div 2 ELSE 0,
         flip |-> augment /\ (n - 1) % 2 = 1]]

\* The sample the enumeration prescribes for record r and (rot, flip).
ExpectedSample(r, rot, flip) ==
    IF augment
    THEN AugmentedSample(r,
             transform_board_tensor_cw(r.x, rot, flip),
             tensor_value(permute_policy_pos(r.place_pos, rot, flip).out, 0),
             tensor_value(permute_policy_pos(r.slide_from, rot, flip).out, 0),
             remap_dirs_probs(r.slide_dir, rot, flip).out)
    ELSE RawSample(r)

\* The words of the i-th (0-based) complete record of the file.
WordsOfRecord(f, i) ==
    SubSeq(f.words, i * (RecordBytes(f.channels) \div 4) + 1,
                    (i + 1) * (RecordBytes(f.channels) \div 4))

\* The last sample yielded is the prescribed sample of the record it is
\* logged for, and the record in hand is that record of the file.
LastSampleAsPrescribed(f) ==
    /\ Len(log) > 0
    /\ DOMAIN rec.x = 0 .. (f.channels - 1)
    /\ RecordWords(rec, f.channels) = WordsOfRecord(f, log[Len(log)].rec)
    /\ sample = ExpectedSample(rec, log[Len(log)].rot, log[Len(log)].flip)

\* Iteration over a file of exactly k complete records: no error, the yields
\* so far are the first yields of the stated enumeration, each sample is the
\* prescribed one, and at the end all k (or 8k) have been yielded.
YieldsAllSamples(f) ==
    /\ pc # "failed"
    /\ Len(log) <= CompleteRecords(f) * SamplesPerRecord
    /\ log = SubSeq(ExpectedLog(CompleteRecords(f)), 1, Len(log))
    /\ (pc = "yielded" => LastSampleAsPrescribed(f))
    /\ (pc = "exhausted" => Len(log) = CompleteRecords(f) * SamplesPerRecord)

\* C12: a file holding k complete records yields exactly k samples without
\* augmentation and 8k with it, record by record, in the order (0,no flip),
\* (0,flip), ..., (3,flip), each sample the prescribed tuple.
C12_CompleteFileYieldsAllSamples ==
    (ValidHeader(file) /\ TailBytes(file) = 0) => YieldsAllSamples(file)

\* C12 for files whose header states at least one channel.
C12_HoldsForPositiveChannels ==
    (ValidHeader(file) /\ TailBytes(file) = 0 /\ file.channels > 0)
        => YieldsAllSamples(file)

\* C12: a 2-record file has been read to its end with augmentation, 16 samples.
C12_SixteenSamples ==
    /\ ValidHeader(file) /\ TailBytes(file) = 0 /\ CompleteRecords(file) = 2
    /\ file.channels = 2 /\ augment
    /\ pc = "exhausted" /\ Len(log) = 16
    /\ log[9] = [rec |-> 1, rot |-> 0, flip |-> FALSE]

\* C14: a board read of zero bytes ends the stream cleanly, with no error and
\* no sample after it; a board read of at least one byte but fewer than
\* 4*36*channel_count bytes ends in an error, never cleanly, and no sample of
\* that record is yielded.
C14_ZeroEndsShortRaises ==
    /\ rd.board = 0 =>
          /\ pc = "exhausted"
          /\ err = NoError
          /\ Len(log) = nrec * SamplesPerRecord
    /\ (rd.board > 0 /\ rd.board < 4 * 36 * channels_in) =>
          /\ pc = "failed"
          /\ err # NoError
          /\ Len(log) = nrec * SamplesPerRecord
C14_Witness ==
    /\ rd.board = 4 /\ channels_in = 2
    /\ pc = "failed" /\ err = ReshapeError
    /\ nrec = 1 /\ augment /\ Len(log) = 8

\* C14: the clean end after the last record of a 2-channel file.
C14_CleanEnd ==
    /\ rd.board = 0 /\ channels_in = 2 /\ pc = "exhausted" /\ nrec = 2

\* C15: a file with a valid header whose body ends 1 byte short of a full
\* board block raises the error kind of a short target read (EOFError
\* 'Truncated record'), a kind other than that of the bad-magic error.
C15_ShortBoardRaisesTruncation ==
    (/\ ValidHeader(file) /\ file.channels > 0
     /\ TailBytes(file) = 4 * 36 * file.channels - 1
     /\ pc \in {"failed", "exhausted"}) =>
        /\ pc = "failed"
        /\ err.type = TruncatedRecord.type
        /\ err.type # BadMagic.type

\* C15: what does hold for such a file: it raises, it does not end silently.
C15_ShortBoardRaisesSomeError ==
    (/\ ValidHeader(file) /\ file.channels > 0
     /\ TailBytes(file) = 4 * 36 * file.channels - 1
     /\ pc \in {"failed", "exhausted"}) =>
        /\ pc = "failed"
        /\ err = FrombufferError

\* C16: after a full board block, a short read (zero bytes included) at any
\* of the seven target reads raises EOFError 'Truncated record', and no
\* sample of that record is yielded.
C16_ShortTargetRaisesTruncated ==
    rd.short > 0 =>
        /\ rd.board = 4 * 36 * channels_in
        /\ rd.short \in 1 .. 7
        /\ pc = "failed"
        /\ err = [type |-> "EOFError", msg |-> "Truncated record"]
        /\ Len(log) = nrec * SamplesPerRecord
C16_Witness ==
    /\ rd.short = 7 /\ pos = file.size
    /\ pc = "failed" /\ nrec = 1 /\ augment /\ Len(log) = 8

\* C17: when the first 8 bytes are not the magic (files shorter than 8 bytes
\* included) iteration raises the format error with the channel count and
\* the record count unread and no record read or yielded.
C17_BadMagicRaisesFirst ==
    (file.magic # "TAKDATA1" /\ pc # "unopened") =>
        /\ pc = "failed"
        /\ err = [type |-> "ValueError", msg |-> "Bad magic"]
        /\ pos <= 8
        /\ channels_in = None /\ count = None
        /\ rd = NoRead /\ nrec = 0 /\ log = << >>
C17_Witness ==
    /\ file.size = 4 /\ file.magic = "TAKD"
    /\ pc = "failed" /\ err = BadMagic /\ pos = 4

\* C17: the same for a file of full length with another magic.
C17_WrongMagicFullFile ==
    /\ file.size > 16 /\ file.magic = "TAKDATA2" /\ pc = "failed" /\ pos = 8

\* Iteration over a file of k complete records and then an incomplete one:
\* it never ends cleanly, every sample yielded is a prescribed sample of one
\* of the k complete records, in order, and when the error is raised all of
\* them, and nothing else, have been yielded.
YieldsCompleteThenRaises(f) ==
    /\ pc # "exhausted"
    /\ Len(log) <= CompleteRecords(f) * SamplesPerRecord
    /\ log = SubSeq(ExpectedLog(CompleteRecords(f)), 1, Len(log))
    /\ (pc = "yielded" => LastSampleAsPrescribed(f))
    /\ (pc = "failed" =>
          /\ err # NoError
          /\ nrec = CompleteRecords(f)
          /\ Len(log) = CompleteRecords(f) * SamplesPerRecord)

\* C18: for a valid header, k complete records and then an incomplete record,
\* iteration yields exactly the samples of the k complete records in order
\* and then raises; no sample holds data of the incomplete record.
C18_CompleteRecordsThenRaise ==
    (ValidHeader(file) /\ TailBytes(file) > 0) => YieldsCompleteThenRaises(file)

\* C18 for files whose header states at least one channel.
C18_HoldsForPositiveChannels ==
    (ValidHeader(file) /\ TailBytes(file) > 0 /\ file.channels > 0)
        => YieldsCompleteThenRaises(file)

\* C18: two records yielded in full, then the error in the third.
C18_RaisedAfterTwoRecords ==
    /\ ValidHeader(file) /\ TailBytes(file) > 0 /\ file.channels = 1
    /\ pc = "failed" /\ nrec = 2 /\ augment /\ Len(log) = 16

\* The file with bytes 12..15 of its header zeroed.
HintFree(f) == [f EXCEPT !.hint = 0]

\* Records the reader streams from a file, the count field left unread: the
\* complete records, as long as a board block has bytes at all.
StreamedRecords(f) ==
    IF 4 * 36 * f.channels = 0 THEN 0 ELSE CompleteRecords(f)

\* C19: the samples yielded are a function of the file with bytes 12..15 left
\* out: their number and their contents are those of the records the body
\* holds, whatever the count field says (0, less or more than the records).
C19_HintNeverBoundsIteration ==
    (ValidHeader(file) /\ pc # "unopened") =>
        /\ count = file.hint
        /\ Len(log) <= StreamedRecords(HintFree(file)) * SamplesPerRecord
        /\ log = SubSeq(ExpectedLog(StreamedRecords(HintFree(file))), 1, Len(log))
        /\ (pc = "yielded" => LastSampleAsPrescribed(HintFree(file)))
        /\ (pc \in {"exhausted", "failed"} =>
              Len(log) = StreamedRecords(HintFree(file)) * SamplesPerRecord)
        /\ (pc = "exhausted" <=>
              /\ handle = "closed" /\ err = NoError
              /\ \/ 4 * 36 * file.channels = 0
                 \/ TailBytes(HintFree(file)) = 0)
C19_Witness ==
    /\ file.hint = 1 /\ count = 1
    /\ CompleteRecords(file) = 2 /\ file.channels = 2
    /\ pc = "yielded" /\ nrec = 2 /\ Len(log) = 16

\* C19: the same with the count field at 0 and above the record count.
C19_ZeroHint ==
    /\ file.hint = 0 /\ CompleteRecords(file) = 2 /\ pc = "exhausted" /\ nrec = 2
C19_LargeHint ==
    /\ file.hint = MaxRecords + 1 /\ CompleteRecords(file) = 1 /\ TailBytes(file) = 0
    /\ file.channels = 1 /\ pc = "exhausted" /\ nrec = 1

\* The float32 word at byte offset b of the file.
WordAt(f, b) == f.words[(b - 16) \div 4 + 1]

\* The n words from byte offset b on, as a 0-based array.
WordsAt(f, b, n) == [i \in 0 .. (n - 1) |-> WordAt(f, b + 4 * i)]

\* C20: with C read once from the header, record k (0-based) lies at offset
\* 16 + k*4*(36*C + 92) and takes 4*(36*C + 92) bytes; its fields are, in
\* this order, board, place_pos(36), place_type(3), slide_from(36),
\* slide_dir(4), slide_pickup(6), slide_len(6), outcome(1); the channel count
\* stays the header's.
C20_RecordFraming ==
    (ValidHeader(file) /\ pc \in {"reading", "decoded", "yielded"}) =>
        /\ channels_in = file.channels
        /\ pos = 16 + nrec * 4 * (36 * file.channels + 92)
        /\ pos = 16 + nrec * RecordBytes(file.channels)
        /\ pc = "decoded" =>
             \E start \in {16 + (nrec - 1) * 4 * (36 * file.channels + 92)} :
             \E targets \in {start + 4 * 36 * file.channels} :
               /\ { rec.x[ch][i][j] : ch \in DOMAIN rec.x, i \in Rows, j \in Rows }
                    = { WordAt(file, start + 4 * w) :
                          w \in 0 .. (36 * file.channels - 1) }
               /\ DOMAIN rec.x = 0 .. (file.channels - 1)
               /\ rec.place_pos = WordsAt(file, targets, 36)
               /\ rec.place_type = WordsAt(file, targets + 4 * 36, 3)
               /\ rec.slide_from = WordsAt(file, targets + 4 * (36 + 3), 36)
               /\ rec.slide_dir = WordsAt(file, targets + 4 * (36 + 3 + 36), 4)
               /\ rec.slide_pickup = WordsAt(file, targets + 4 * (36 + 3 + 36 + 4), 6)
               /\ rec.slide_len = WordsAt(file, targets + 4 * (36 + 3 + 36 + 4 + 6), 6)
               /\ rec.z = WordAt(file, targets + 4 * (36 + 3 + 36 + 4 + 6 + 6))
C20_Witness ==
    /\ ValidHeader(file) /\ file.channels = 2
    /\ pc = "decoded" /\ nrec = 2
    /\ pos = 16 + 2 * 656
    /\ rec.z = WordAt(file, 16 + 656 + 4 * 163)
    /\ rec.slide_pickup[0] # rec.slide_len[0]
    /\ rec.place_pos[0] # rec.slide_from[0]

\* Byte offset at which the record in hand starts.
RecordStart == 16 + (nrec - 1) * RecordBytes(file.channels)

\* C21: the board block is decoded channel-major: the float at position
\* ch*36 + r*6 + c of the block is element [ch][r][c] of the board tensor.
C21_BoardIsChannelMajor ==
    (ValidHeader(file) /\ pc = "decoded") =>
        \A ch \in DOMAIN rec.x : \A r \in Rows : \A c \in Rows :
            rec.x[ch][r][c] = WordAt(file, RecordStart + 4 * (ch * 36 + r * 6 + c))

\* C21: what the reader does instead: the float at position (r*6 + c)*C + ch
\* of the block is element [ch][r][c] (the channel is the innermost index).
C21_BoardIsChannelLast ==
    (ValidHeader(file) /\ pc = "decoded") =>
        \A ch \in DOMAIN rec.x : \A r \in Rows : \A c \in Rows :
            rec.x[ch][r][c]
                = WordAt(file, RecordStart + 4 * ((r * 6 + c) * file.channels + ch))

\* ------------------------------------------------------ concat_takbin claims

\* The iteration as a function agrees with the iteration step by step.
ReaderFunctionAgrees ==
    (pc \in {"exhausted", "failed"} /\ ~augment) =>
        /\ reader_yields(file).end = pc
        /\ Len(reader_yields(file).recs) = Len(log)
        /\ (nrec > 0 => reader_yields(file).recs[nrec] = rec)

\* Every input has the magic, a full header and the first input's channels.
InputsJoinable ==
    \A i \in 1 .. Len(inputs) :
        ValidHeader(inputs[i]) /\ inputs[i].channels = inputs[1].channels

\* The records the Reader yields from input 1, then those from input 2, ...
RECURSIVE RecordsOfInputs(_)
RecordsOfInputs(l) ==
    IF l = << >> THEN << >>
    ELSE reader_yields(Head(l)).recs \o RecordsOfInputs(Tail(l))

\* The bytes (as words) of the bodies of the inputs, in argument order.
RECURSIVE BodiesOfInputs(_)
BodiesOfInputs(l) ==
    IF l = << >> THEN [bytes |-> 0, words |-> << >>]
    ELSE [bytes |-> (Head(l).size - 16) + BodiesOfInputs(Tail(l)).bytes,
          words |-> Head(l).words \o BodiesOfInputs(Tail(l)).words]

\* The tool has finished and its output is the header (magic, the channel
\* count, hint 0) followed by the bodies; what has been read back from the
\* output so far is the records read from the inputs, field for field.
RoundTrips(expected) ==
    /\ cpc = "done"
    /\ out.magic = "TAKDATA1"
    /\ out.channels = inputs[1].channels
    /\ out.hint = 0
    /\ out.size = 16 + BodiesOfInputs(inputs).bytes
    /\ out.words = BodiesOfInputs(inputs).words
    /\ Len(log) <= Len(expected)
    /\ (pc = "yielded" =>
          /\ sample = RawSample(expected[Len(log)])
          /\ \A n \in 1 .. 7 : DOMAIN sample[n] = DOMAIN RawSample(expected[Len(log)])[n])
    /\ (pc \in {"exhausted", "failed"} => Len(log) = Len(expected))

\* C22: for inputs that all have the magic and the same channel count the
\* tool writes magic, channel count, hint 0 and the bodies in argument order,
\* and the Reader yields from the output the records of input 1, then those
\* of input 2, and so on, field for field.
C22_ConcatRoundTrip ==
    (InputsJoinable /\ ci = Len(inputs)) =>
        (cpc # "failed" /\ (cpc = "done" => RoundTrips(RecordsOfInputs(inputs))))

\* C22 amended: the same for inputs of which every one that another input
\* follows holds complete records only.
C22_ConcatRoundTripWholeRecords ==
    (/\ InputsJoinable /\ ci = Len(inputs)
     /\ \A i \in 1 .. (Len(inputs) - 1) : TailBytes(inputs[i]) = 0) =>
        (cpc # "failed" /\ (cpc = "done" => RoundTrips(RecordsOfInputs(inputs))))
C22_Witness ==
    /\ Len(inputs) = 2 /\ InputsJoinable
    /\ inputs[1].channels = 2
    /\ CompleteRecords(inputs[1]) = 2 /\ TailBytes(inputs[1]) = 0
    /\ CompleteRecords(inputs[2]) = 1 /\ TailBytes(inputs[2]) = 0
    /\ inputs[1].words[2] # inputs[2].words[2]
    /\ cpc = "done" /\ pc = "exhausted" /\ Len(log) = 3
    /\ RecordWords(rec, 2) = inputs[2].words

\* Some input has another magic, or a channel count other than the first's.
SomeInputUnjoinable ==
    \E i \in 1 .. Len(inputs) :
        \/ inputs[i].magic # "TAKDATA1"
        \/ /\ ValidHeader(inputs[i]) /\ ValidHeader(inputs[1])
           /\ inputs[i].channels # inputs[1].channels

\* C23: with an input of another channel count than the first's, or of bad
\* magic, the tool raises and the file at the output path is what it was
\* before (absent, or its old contents): the loop over the inputs never
\* completes, and the output is opened only after it.
C23_MismatchLeavesOutputUntouched ==
    /\ SomeInputUnjoinable =>
          /\ out = out0
          /\ cpc \in {"reading", "failed"}
          /\ ci < Len(inputs)
          /\ (cpc = "failed" => cerr # NoError)
    /\ (cpc \in {"reading", "failed"} => out = out0)
    /\ (cpc = "done" => ci = Len(inputs) /\ Len(bodies) = Len(inputs))
C23_Witness ==
    /\ Len(inputs) = 2
    /\ ValidHeader(inputs[1]) /\ ValidHeader(inputs[2])
    /\ inputs[1].channels = 1 /\ inputs[2].channels = 2
    /\ cpc = "failed" /\ cerr = ChannelMismatch /\ ci = 1
    /\ out0 # NoOutput /\ out = out0

\* C23: the same with a second input of bad magic and no file at the output.
C23_BadMagicInput ==
    /\ Len(inputs) = 2 /\ inputs[2].magic = "TAKDATA2"
    /\ cpc = "failed" /\ cerr = BadMagic /\ ci = 1 /\ out = NoOutput

\* --------------------------------------------------------- generator claims

\* The handle of a generator standing at p: none before the first next(),
\* open while records are read and yielded, closed once the iteration ended.
HandleMatches(p, h) ==
    /\ (p = "unopened" => h = "none")
    /\ (p \in {"reading", "decoded", "yielded"} => h = "open")
    /\ (p \in {"exhausted", "failed"} => h = "closed")
    /\ (p = "closed" => h \in {"none", "closed"})

\* C24: an iteration has one handle, opened at the first next(), and it is
\* closed in every terminal outcome: exhaustion, bad magic, truncation, and
\* the generator being closed by a consumer that stops; no handle stays open
\* after the iteration has ended.
C24_HandleClosedAtEveryEnd ==
    /\ handle \in {"none", "open", "closed"}
    /\ HandleMatches(pc, handle)
    /\ (other # NoGen => HandleMatches(other.pc, other.handle))
C24_Witness ==
    /\ pc = "closed" /\ handle = "closed"
    /\ augment /\ Len(log) = 3 /\ nrec = 1

\* C24: the other terminal outcomes.
C24_ClosedAfterExhaustion ==
    pc = "exhausted" /\ handle = "closed" /\ nrec = 2
C24_ClosedAfterBadMagic ==
    pc = "failed" /\ err = BadMagic /\ handle = "closed"
C24_ClosedAfterTruncation ==
    pc = "failed" /\ err = TruncatedRecord /\ handle = "closed" /\ nrec = 1

\* A generator standing at p in the middle of the stream has read the header
\* itself and stands behind its own n-th record.
ReadsFromStart(p, h, at, ch, cnt, n) ==
    p \in {"reading", "decoded", "yielded"} =>
        /\ h = "open"
        /\ ch = file.channels
        /\ cnt = file.hint
        /\ at = 16 + n * RecordBytes(file.channels)

\* A generator that was started on a file of bad magic failed on the magic.
RevalidatesMagic(p, e, at) ==
    (file.magic # "TAKDATA1" /\ p \notin {"unopened", "closed"}) =>
        (p = "failed" /\ e = BadMagic /\ at <= 8)

C25_EveryIterationFromStart ==
    /\ ReadsFromStart(pc, handle, pos, channels_in, count, nrec)
    /\ RevalidatesMagic(pc, err, pos)
    /\ other # NoGen =>
         /\ ReadsFromStart(other.pc, other.handle, other.pos, other.channels_in,
                           other.count, other.nrec)
         /\ RevalidatesMagic(other.pc, other.err, other.pos)
         /\ (Len(other.log) = Len(log) /\ Len(log) > 0) =>
                (other.log = log /\ other.sample = sample)
         /\ (Len(other.log) <= Len(log)) =>
                other.log = SubSeq(log, 1, Len(other.log))
         /\ (other.pc \in {"exhausted", "failed"} /\ pc \in {"exhausted", "failed"}) =>
                /\ other.pc = pc /\ other.err = err /\ other.pos = pos
                /\ other.log = log /\ other.sample = sample

\* C25: every iteration opens the file afresh, validates the magic and reads
\* the header before any record and starts at the first record; iterations
\* over the same file yield the same samples; iterations in progress at once
\* keep their own handle and position; and the position of an iteration
\* never moves backward.
C25_RestartOnlyByReopening ==
    /\ []C25_EveryIterationFromStart
    /\ [][gen' = gen => pos' >= pos]_vars
C25_Witness ==
    /\ gen = 2 /\ other # NoGen
    /\ other.pc = "yielded" /\ Len(other.log) = 3 /\ other.nrec = 1
    /\ pc = "exhausted" /\ Len(log) = 16 /\ augment
    /\ pos = file.size /\ other.pos = 16 + RecordBytes(1)

\* C25: two iterations run to the end one after the other.
C25_SecondRunAfterFirst ==
    /\ gen = 2 /\ other # NoGen /\ other.pc = "exhausted" /\ pc = "exhausted"
    /\ Len(log) = 16 /\ other.log = log /\ other.sample = sample

\* ------------------------------------------------ direction remap, all cells

\* The step from cell (r, c) to its image under the operation of the last
\* sample, seen from the image of (r, c): image(r + dr, c + dc) - image(r, c).
ImageOfStep(r, c, dr, dc) ==
    << transform_rc(r + dr, c + dc, trace.rot, trace.flip)[1]
         - transform_rc(r, c, trace.rot, trace.flip)[1],
       transform_rc(r + dr, c + dc, trace.rot, trace.flip)[2]
         - transform_rc(r, c, trace.rot, trace.flip)[2] >>

\* C26: for the operation of every augmented sample, every cell (r, c) and
\* every direction i whose neighbour lies on the board, the image of the
\* neighbour minus the image of the cell is the offset of the direction j to
\* which remap_dirs_probs moved the mass of i.
C26_DirectionsFollowCellsEverywhere ==
    AugmentedYielded =>
        \A i \in Dirs : \A r \in Rows : \A c \in Rows :
            (r + vecs[i + 1][1] \in Rows /\ c + vecs[i + 1][2] \in Rows) =>
                /\ trace.sd.idx[i] \in Dirs
                /\ ImageOfStep(r, c, vecs[i + 1][1], vecs[i + 1][2])
                     = vecs[trace.sd.idx[i] + 1]
                /\ sample[5][trace.sd.idx[i]] = rec.slide_dir[i]
C26_Witness ==
    /\ AugmentedYielded
    /\ trace.rot = 1 /\ trace.flip
    /\ trace.sd.idx[1] = 2
    /\ ImageOfStep(0, 4, 0, 1) = << 1, 0 >>
    /\ transform_rc(0, 5, 1, TRUE) = << 5, 0 >>
    /\ rec = LabelledRecord(1)

\* ------------------------------------------------------- end of the stream

\* C27: the stream ends cleanly only with no unread byte left in the file,
\* for every channel count of the header, 0 included.
C27_CleanEndOnlyAtEndOfFile ==
    pc = "exhausted" => pos = file.size

\* C27 for headers that state at least one channel.
C27_HoldsForPositiveChannels ==
    (pc = "exhausted" /\ channels_in > 0) => pos = file.size

\* C27: a clean end with unread bytes: the header states no channel.
C27_SilentStop ==
    /\ pc = "exhausted" /\ err = NoError
    /\ channels_in = 0 /\ rd.board = 0
    /\ pos = 16 /\ file.size = 16 + 2 * 368
    /\ log = << >>

\* ----------------------------------------------------------- training claims

\* C28: in every iteration it >= 1 of the orchestration loop the train call,
\* resumed from the final checkpoint of iteration it - 1 with the same
\* --steps, has made at least one optimizer step when it is done.
C28_EveryIterationTrains ==
    (/\ tit # None /\ tit >= 1 /\ tpc = "done"
     /\ targs.steps >= 1
     /\ batches_per_epoch(targs.records, targs.batch_size) >= 1) => tran > 0

\* C28: what the code does: such a call makes no optimizer step at all.
C28_LaterIterationsTrainNothing ==
    (tit # None /\ tit >= 1 /\ tpc \in {"loop", "done"}) =>
        /\ targs.resume = [step |-> targs.steps, updates |-> targs.steps]
        /\ tstep = targs.steps
        /\ tran = 0
C28_SecondIterationDone ==
    /\ tit = 1 /\ tpc = "done" /\ targs.steps = MaxSteps /\ targs.records = 1
    /\ tran = 0 /\ tupdates = MaxSteps

\* C29: every checkpoint written, periodic or final, stores a step counter
\* equal to the number of optimizer updates applied to the model it holds.
C29_CheckpointStepCountsUpdates ==
    \A n \in DOMAIN tckpts :
        /\ tckpts[n].step = n
        /\ tckpts[n].step = tckpts[n].updates

\* C29: the final checkpoint does; a periodic one (n below the last step) is
\* one short.
C29_PeriodicCheckpointOneShort ==
    \A n \in DOMAIN tckpts :
        /\ tckpts[n].step = n
        /\ tckpts[n].updates \in {n, n + 1}
        /\ (tpc = "done" /\ n = tstep) => tckpts[n].updates = n
        /\ (tpc = "loop" \/ n < tstep) => tckpts[n].updates = n + 1
C29_PeriodicCheckpointWritten ==
    /\ tpc = "done" /\ tstep = 3 /\ targs.save_every = 2
    /\ 2 \in DOMAIN tckpts /\ tckpts[2] = [step |-> 2, updates |-> 3]
    /\ tckpts[3] = [step |-> 3, updates |-> 3]

\* Step the call started from.
StartStep == load_ckpt(targs.resume).step

\* C30: for a dataset of at least one record and any batch size, train_cli
\* started from s0 <= steps does not end with StopIteration, and when it is
\* done it has made steps - s0 optimizer steps and written ckpt_<steps>.pt.
C30_TrainTerminatesNormally ==
    (targs.records >= 1 /\ StartStep <= targs.steps /\ tpc # "start") =>
        /\ tpc # "crashed"
        /\ terr = NoError
        /\ tran = tstep - StartStep
        /\ tpc = "done" =>
             /\ tran = targs.steps - StartStep
             /\ targs.steps \in DOMAIN tckpts
             /\ tckpts[targs.steps].step = targs.steps

\* C30 for datasets that fill at least one batch.
C30_HoldsWithOneFullBatch ==
    (/\ targs.records >= 1 /\ StartStep <= targs.steps /\ tpc # "start"
     /\ batches_per_epoch(targs.records, targs.batch_size) >= 1) =>
        /\ tpc # "crashed"
        /\ terr = NoError
        /\ tran = tstep - StartStep
        /\ tpc = "done" =>
             /\ tran = targs.steps - StartStep
             /\ targs.steps \in DOMAIN tckpts
             /\ tckpts[targs.steps].step = targs.steps
C30_IteratorRestarted ==
    /\ tpc = "done" /\ targs.records = MaxTrainRecords
    /\ targs.batch_size = samples_per_epoch(MaxTrainRecords)
    /\ targs.resume = NoCkpt /\ tran = MaxSteps /\ tbatch = 1
    /\ MaxSteps \in DOMAIN tckpts
C30_StopIterationEscapes ==
    /\ tpc = "crashed" /\ terr.type = "StopIteration"
    /\ targs.records >= 1 /\ targs.steps >= 1 /\ tran = 0
====
